---------------------------- MODULE Spec2Model ----------------------------
(***************************************************************************)
(* A model of RustySecrets' share generation, share (de)serialisation and  *)
(* secret recovery (src/src/sss.rs, src/src/share_format.rs).              *)
(*                                                                         *)
(* Conventions.                                                            *)
(*   - a byte is a number in 0..255, a byte string a sequence of bytes;    *)
(*   - a Rust String that is a share ("K-I-B") is a sequence of one-       *)
(*     character strings, e.g. <<"2", "-", "1", "-", "C", "g">>;           *)
(*   - a Result is a record with tag "Ok" (and val) or "Err" (and kind);   *)
(*     a Rust panic (unwrap on None/Err, index out of bounds) is the       *)
(*     record with tag "Panic" and the place it happens.                   *)
(***************************************************************************)
EXTENDS Integers, Sequences, FiniteSets, TLC

VARIABLES
    op,        \* the call that ran last: "idle" before any call
    args,      \* the arguments of that call
    ret,       \* what the call returned (or the panic it ended in)
    aux        \* what the call did on the way (drawn coefficients, signed forms)

vars == <<op, args, ret, aux>>

---------------------------------------------------------------------------
(* Results *)

Ok(v) == [tag |-> "Ok", val |-> v]

Err(k) == [tag |-> "Err", kind |-> k]

Panic(w) == [tag |-> "Panic", at |-> w]

IsOk(r) == r.tag = "Ok"

IsErr(r) == r.tag = "Err"

---------------------------------------------------------------------------
(* Sequences *)

Byte == 0..255

RECURSIVE Concat(_)
\* the concatenation of a sequence of sequences (by halves)
Concat(ss) ==
    IF ss = <<>> THEN <<>>
    ELSE IF Len(ss) = 1 THEN ss[1]
    ELSE LET h == Len(ss) \div 2
         IN  Concat(SubSeq(ss, 1, h)) \o Concat(SubSeq(ss, h + 1, Len(ss)))

\* the least element of a non-empty set of numbers
Min(S) == CHOOSE x \in S : \A y \in S : x <= y

\* the greatest element of a non-empty set of numbers
Max(S) == CHOOSE x \in S : \A y \in S : x >= y

\* new_vec(n, x): n copies of x
AsSeq(f) == f \o <<>>

new_vec(n, x) == AsSeq([i \in 1..n |-> x])

\* the elements of a sequence
Range(s) == {s[i] : i \in 1..Len(s)}

\* the first n elements of s (all of s when it is shorter): Iterator::take
Take(s, n) == SubSeq(s, 1, IF n < Len(s) THEN n ELSE Len(s))

---------------------------------------------------------------------------
(* Decimal text of a u8: format!("{}", x) and str::parse::<u8>() *)

Digits == <<"0", "1", "2", "3", "4", "5", "6", "7", "8", "9">>

DigitSet == Range(Digits)

DigitValue(c) == CHOOSE d \in 0..9 : Digits[d + 1] = c

\* format!("{}", x) for x: u8 -- decimal, no sign, no leading zeros
FormatU8(x) ==
    IF x < 10 THEN <<Digits[x + 1]>>
    ELSE IF x < 100 THEN <<Digits[(x \div 10) + 1], Digits[(x % 10) + 1]>>
    ELSE <<Digits[(x \div 100) + 1], Digits[((x \div 10) % 10) + 1], Digits[(x % 10) + 1]>>

RECURSIVE ParseDigits(_, _)
\* the digits of s accumulated on acc with a checked multiply-add: -1 on a
\* character that is no digit or when the value leaves the u8 range
ParseDigits(s, acc) ==
    IF s = <<>> THEN acc
    ELSE IF Head(s) \notin DigitSet THEN -1
    ELSE LET v == acc * 10 + DigitValue(Head(s))
         IN  IF v > 255 THEN -1 ELSE ParseDigits(Tail(s), v)

\* str::parse::<u8>(): Err on the empty string, one optional leading "+",
\* then at least one digit, digits only, value at most 255.  Leading zeros
\* are accepted.  The result is the value, or -1 for Err(ParseIntError).
ParseU8(s) ==
    IF s = <<>> THEN -1
    ELSE LET digits == IF Head(s) = "+" THEN Tail(s) ELSE s
         IN  IF digits = <<>> THEN -1 ELSE ParseDigits(digits, 0)

---------------------------------------------------------------------------
(* str::trim and str::split('-') *)

Whitespace == {" ", "\t", "\n", "\r"}

\* str::trim(): s from its first to its last character that is no white space
Trim(s) ==
    LET keep == {i \in 1..Len(s) : s[i] \notin Whitespace}
    IN  IF keep = {} THEN <<>> ELSE SubSeq(s, Min(keep), Max(keep))

\* the position of the j-th of the separators at the positions at; 0 and
\* Len(s) + 1 bound the text
SeparatorAt(s, at, j) ==
    IF j = 0 THEN 0
    ELSE IF j > Cardinality(at) THEN Len(s) + 1
    ELSE CHOOSE q \in at : Cardinality({r \in at : r < q}) = j - 1

\* the fields of s between the separators at the positions at
SplitAt(s, at) ==
    AsSeq([j \in 1..(Cardinality(at) + 1) |->
        SubSeq(s, SeparatorAt(s, at, j - 1) + 1, SeparatorAt(s, at, j) - 1)])

\* s.split(sep).collect(): the fields between the occurrences of sep, always
\* at least one field
Split(s, sep) == SplitAt(s, {i \in 1..Len(s) : s[i] = sep})

---------------------------------------------------------------------------
(* Base64.  A sextet is a number in 0..63. *)

B64Chars ==
    << "A", "B", "C", "D", "E", "F", "G", "H", "I", "J", "K", "L", "M", "N", "O", "P",
       "Q", "R", "S", "T", "U", "V", "W", "X", "Y", "Z", "a", "b", "c", "d", "e", "f",
       "g", "h", "i", "j", "k", "l", "m", "n", "o", "p", "q", "r", "s", "t", "u", "v",
       "w", "x", "y", "z", "0", "1", "2", "3", "4", "5", "6", "7", "8", "9", "+", "/" >>

B64CharSet == Range(B64Chars)

\* the standard alphabet: character -> sextet
B64Index == [c \in B64CharSet |-> (CHOOSE i \in 1..64 : B64Chars[i] = c) - 1]

\* the elements b and b + 1 of a sequence of digits of the given base as one
\* number, a missing element b + 1 taken as 0
Window(digits, b, base) ==
    digits[b] * base + (IF b < Len(digits) THEN digits[b + 1] ELSE 0)

\* the sextets of a byte string, the last one zero-filled: 3 bytes give 4
\* sextets, a rest of 1 byte gives 2, a rest of 2 bytes gives 3.  Sextet i
\* is the bits 6(i-1) .. 6(i-1)+5 of the bit string of the bytes.
Sextets(bytes) ==
    AsSeq([i \in 1..((8 * Len(bytes) + 5) \div 6) |->
        (Window(bytes, ((6 * (i - 1)) \div 8) + 1, 256)
            \div (2 ^ (10 - ((6 * (i - 1)) % 8)))) % 64])

\* the bytes of a sextet string: 4 sextets give 3 bytes, a rest of 2 gives 1
\* byte and a rest of 3 gives 2, the bits left over dropped (a rest of 1 is
\* refused by the callers).  Byte j is the bits 8(j-1) .. 8(j-1)+7 of the
\* bit string of the sextets.
Unsextets(sx) ==
    AsSeq([j \in 1..((6 * Len(sx)) \div 8) |->
        (Window(sx, ((8 * (j - 1)) \div 6) + 1, 64)
            \div (2 ^ (4 - ((8 * (j - 1)) % 6)))) % 256])

\* the padding of the standard encoding of n bytes
PadCount(n) == IF n % 3 = 1 THEN 2 ELSE IF n % 3 = 2 THEN 1 ELSE 0

\* base64_config(): the standard alphabet, no padding, no line breaks
base64_config == [pad |-> FALSE]

\* the characters of the standard alphabet for the sextets sx
B64Text(sx) == AsSeq([i \in 1..Len(sx) |-> B64Chars[sx[i] + 1]])

\* rustc_serialize's [u8]::to_base64(config), as a String
to_base64(bytes, config) ==
    B64Text(Sextets(bytes))
    \o (IF config.pad THEN new_vec(PadCount(Len(bytes)), "=") ELSE <<>>)

\* rustc_serialize's decoding table: both the standard and the URL-safe
\* alphabet ("+" and "-" are 62, "/" and "_" are 63); -1 for a line break,
\* -2 for "=", -3 for any other character
FromBase64Code(c) ==
    IF c \in B64CharSet THEN B64Index[c]
    ELSE IF c = "-" THEN 62
    ELSE IF c = "_" THEN 63
    ELSE IF c \in {"\r", "\n"} THEN -1
    ELSE IF c = "=" THEN -2
    ELSE -3

IsSextet(x) == x >= 0

\* the bytes of a sextet string, unless one sextet is left over
FromSextets(sx, length_error) ==
    IF Len(sx) % 4 = 1 THEN Err(length_error) ELSE Ok(Unsextets(sx))

\* the decoding of the codes up to the position stop of the first "="
FromBase64Upto(codes, stop) ==
    IF \E i \in 1..(stop - 1) : codes[i] = -3 THEN Err("InvalidBase64Byte")
    ELSE IF \E i \in (stop + 1)..Len(codes) : codes[i] \notin {-1, -2}
        THEN Err("InvalidBase64Byte")
    ELSE FromSextets(SelectSeq(SubSeq(codes, 1, stop - 1), IsSextet), "InvalidBase64Length")

\* the decoding of the characters with the codes given
FromBase64Codes(codes) ==
    FromBase64Upto(codes, Min({i \in 1..Len(codes) : codes[i] = -2} \cup {Len(codes) + 1}))

\* rustc_serialize's str::from_base64(): up to the first "=" the sextets
\* are collected and line breaks skipped; after it only "=", "\r" and "\n"
\* may follow; a rest of one sextet is refused
from_base64(s) ==
    FromBase64Codes(AsSeq([i \in 1..Len(s) |-> FromBase64Code(s[i])]))

\* the ASCII code of the standard alphabet's character for a sextet
B64Ascii(x) ==
    IF x < 26 THEN 65 + x
    ELSE IF x < 52 THEN 97 + (x - 26)
    ELSE IF x < 62 THEN 48 + (x - 52)
    ELSE IF x = 62 THEN 43 ELSE 47

\* the sextet of an ASCII code of the standard alphabet, -1 for any other
B64OfAscii(b) ==
    IF b >= 65 /\ b <= 90 THEN b - 65
    ELSE IF b >= 97 /\ b <= 122 THEN b - 97 + 26
    ELSE IF b >= 48 /\ b <= 57 THEN b - 48 + 52
    ELSE IF b = 43 THEN 62
    ELSE IF b = 47 THEN 63
    ELSE -1

\* the ASCII codes of the standard alphabet's characters for the sextets sx
B64AsciiText(sx) == AsSeq([i \in 1..Len(sx) |-> B64Ascii(sx[i])])

\* the base64 crate's encode(): standard alphabet, padded; the String is
\* given by its ASCII bytes
base64_encode(bytes) ==
    B64AsciiText(Sextets(bytes)) \o new_vec(PadCount(Len(bytes)), 61)

RECURSIVE StripPad(_, _)
\* s without up to n trailing "=" (ASCII 61)
StripPad(s, n) ==
    IF n > 0 /\ s # <<>> /\ s[Len(s)] = 61
    THEN StripPad(SubSeq(s, 1, Len(s) - 1), n - 1) ELSE s

\* the decoding of a text of the standard alphabet without its padding
DecodeUnpadded(data) ==
    IF \E i \in 1..Len(data) : B64OfAscii(data[i]) = -1 THEN Err("InvalidByte")
    ELSE FromSextets(AsSeq([i \in 1..Len(data) |-> B64OfAscii(data[i])]), "InvalidLength")

\* the base64 crate's decode(): standard alphabet only, trailing padding
\* optional, nothing but the alphabet before it
base64_decode(text) == DecodeUnpadded(StripPad(text, 2))

---------------------------------------------------------------------------
(* Option<T>: None is the empty sequence, Some(x) the sequence <<x>> *)

None == <<>>

Some(x) == <<x>>

IsSome(o) == o # <<>>

Unwrap(o) == o[1]

---------------------------------------------------------------------------
(* merkle_sigs (an external crate), as far as the share format uses it.    *)
(* A Proof has a root hash, a lemma and the leaf's public key; a digest is *)
(* abstracted to one byte, a lemma to the leaf's position and a one-time   *)
(* signature to one chunk that names the key and the digest of the leaf.   *)

RECURSIVE SumBytes(_)
\* the sum of the bytes modulo 251 (by halves)
SumBytes(bytes) ==
    IF bytes = <<>> THEN 0
    ELSE IF Len(bytes) = 1 THEN bytes[1] % 251
    ELSE LET h == Len(bytes) \div 2
         IN  (SumBytes(SubSeq(bytes, 1, h)) + SumBytes(SubSeq(bytes, h + 1, Len(bytes)))) % 251

\* the digest of a byte string, abstracted to one byte
Digest(bytes) == <<(SumBytes(bytes) + Len(bytes)) % 251>>

\* the (signature, proof) of the leaf at position i under the root hash
SignedLeaf(leaf, i, root) ==
    <<  << <<i % 256>> \o Digest(leaf) >>,
        [root_hash |-> root, lemma |-> <<i % 256>>, value |-> <<i % 256>>]  >>

\* the pairs of the leaves under the root hash
SignedLeaves(leaves, root) ==
    AsSeq([i \in 1..Len(leaves) |-> SignedLeaf(leaves[i], i, root)])

\* sign_data_vec(leaves, digest): one (signature, proof) per leaf, every proof
\* with the root hash over all the leaves
sign_data_vec(leaves) ==
    SignedLeaves(leaves, Digest(AsSeq([i \in 1..Len(leaves) |-> Digest(leaves[i])[1]])))

\* Proof::write_to_bytes()
ProofWriteToBytes(proof) == proof.root_hash \o proof.lemma \o proof.value

\* Proof::parse_from_bytes(bytes, digest): Ok(Some(proof)), Ok(None) for a
\* message without root hash and lemma (the empty one), Err otherwise
ProofParseFromBytes(bytes) ==
    IF bytes = <<>> THEN Ok(None)
    ELSE IF Len(bytes) # 3 THEN Err("ProtobufError")
    ELSE Ok(Some([root_hash |-> <<bytes[1]>>, lemma |-> <<bytes[2]>>,
                  value |-> <<bytes[3]>>]))

---------------------------------------------------------------------------
(* The Binary body: the ShareData message in protobuf's wire format.       *)
(* Field 1 is shamir_data (bytes), 2 signature (repeated bytes), 3 proof   *)
(* (bytes); every field is length-delimited (wire type 2).                 *)

RECURSIVE WriteVarint(_)
WriteVarint(x) ==
    IF x < 128 THEN <<x>> ELSE <<128 + (x % 128)>> \o WriteVarint(x \div 128)

\* a length-delimited field: the tag, the length, the bytes
WriteBytesField(field, bytes) ==
    <<field * 8 + 2>> \o WriteVarint(Len(bytes)) \o bytes

ShareDataNew == [shamir_data |-> <<>>, signature |-> <<>>, proof |-> <<>>]

\* ShareData::write_to_bytes(): the fields in tag order, an empty bytes field
\* left out
ShareDataWriteToBytes(m) ==
    (IF m.shamir_data = <<>> THEN <<>> ELSE WriteBytesField(1, m.shamir_data))
    \o Concat(AsSeq([i \in 1..Len(m.signature) |-> WriteBytesField(2, m.signature[i])]))
    \o (IF m.proof = <<>> THEN <<>> ELSE WriteBytesField(3, m.proof))

\* a varint's low seven bits b7 at the weight shift, before the rest r
VarintWith(b7, shift, r) ==
    [ok |-> r.ok, val |-> b7 * shift + r.val, next |-> r.next]

RECURSIVE ReadVarint(_, _, _, _)
\* the varint of b at position p: its value and the position after it;
\* ok is FALSE when b ends inside it or it is longer than 10 bytes
ReadVarint(b, p, shift, n) ==
    IF p > Len(b) \/ n >= 10 THEN [ok |-> FALSE, val |-> 0, next |-> p]
    ELSE IF b[p] < 128 THEN [ok |-> TRUE, val |-> b[p] * shift, next |-> p + 1]
    ELSE VarintWith(b[p] - 128, shift, ReadVarint(b, p + 1, shift * 128, n + 1))

\* the message m with the bytes of one length-delimited field
MergedWith(m, field, bytes) ==
    IF field = 1 THEN [m EXCEPT !.shamir_data = bytes]
    ELSE IF field = 2 THEN [m EXCEPT !.signature = Append(@, bytes)]
    ELSE IF field = 3 THEN [m EXCEPT !.proof = bytes]
    ELSE m

RECURSIVE ShareDataMerge(_, _, _)
\* the value of the field with the given number and wire type, whose tag ends
\* before the position at and where len is the varint at that position: a
\* length-delimited value is merged, one of an unknown field skipped
MergeValue(b, field, wire, at, len, m) ==
    IF wire = 2 THEN
        IF ~len.ok \/ len.next + len.val - 1 > Len(b) THEN Err("WireError")
        ELSE ShareDataMerge(b, len.next + len.val,
                 MergedWith(m, field, SubSeq(b, len.next, len.next + len.val - 1)))
    ELSE IF field \in {1, 2, 3} THEN Err("WireError")
    ELSE IF wire = 0 THEN
        IF ~len.ok THEN Err("WireError") ELSE ShareDataMerge(b, len.next, m)
    ELSE IF wire = 1 THEN
        IF at + 7 > Len(b) THEN Err("WireError") ELSE ShareDataMerge(b, at + 8, m)
    ELSE IF wire = 5 THEN
        IF at + 3 > Len(b) THEN Err("WireError") ELSE ShareDataMerge(b, at + 4, m)
    ELSE Err("WireError")

\* the field whose tag has been read
MergeField(b, tag, m) ==
    IF ~tag.ok \/ tag.val \div 8 = 0 THEN Err("WireError")
    ELSE MergeValue(b, tag.val \div 8, tag.val % 8, tag.next,
                    ReadVarint(b, tag.next, 1, 0), m)

\* the message m merged with the fields of b from position p on
ShareDataMerge(b, p, m) ==
    IF p > Len(b) THEN Ok(m) ELSE MergeField(b, ReadVarint(b, p, 1, 0), m)

\* protobuf::parse_from_bytes::<ShareData>(bytes)
ShareDataParseFromBytes(bytes) == ShareDataMerge(bytes, 1, ShareDataNew)

---------------------------------------------------------------------------
(* The Textual body: ShareDataJson as JSON text, given by its ASCII bytes. *)
(* 34 is the double quote, 44 the comma, 58 the colon, 91 and 93 the       *)
(* brackets, 123 and 125 the braces, 92 the backslash.                     *)

KeyShamirData == <<115, 104, 97, 109, 105, 114, 95, 100, 97, 116, 97>>   \* shamir_data

KeySignature == <<115, 105, 103, 110, 97, 116, 117, 114, 101>>   \* signature

KeyProof == <<112, 114, 111, 111, 102>>   \* proof

JsonNull == <<110, 117, 108, 108>>   \* null

JsonQuoted(text) == <<34>> \o text \o <<34>>

RECURSIVE JsonJoin(_)
\* the items separated by commas
JsonJoin(items) ==
    IF items = <<>> THEN <<>>
    ELSE IF Len(items) = 1 THEN Head(items)
    ELSE Head(items) \o <<44>> \o JsonJoin(Tail(items))

\* serde_json::to_string(&ShareDataJson): the members in declaration order,
\* None as null, no white space
JsonToString(j) ==
    <<123>>
    \o JsonQuoted(KeyShamirData) \o <<58>> \o JsonQuoted(j.shamir_data) \o <<44>>
    \o JsonQuoted(KeySignature) \o <<58>>
    \o (IF IsSome(j.signature)
        THEN <<91>> \o JsonJoin(AsSeq([i \in 1..Len(Unwrap(j.signature)) |->
                                   JsonQuoted(Unwrap(j.signature)[i])])) \o <<93>>
        ELSE JsonNull)
    \o <<44>>
    \o JsonQuoted(KeyProof) \o <<58>>
    \o (IF IsSome(j.proof) THEN JsonQuoted(Unwrap(j.proof)) ELSE JsonNull)
    \o <<125>>

\* the continuation bytes a lead byte asks for, -1 when it is no lead byte
Utf8Need(lead) ==
    IF lead >= 194 /\ lead <= 223 THEN 1
    ELSE IF lead >= 224 /\ lead <= 239 THEN 2
    ELSE IF lead >= 240 /\ lead <= 244 THEN 3
    ELSE -1

RECURSIVE Utf8From(_, _)
\* whether the lead byte at q has its need continuation bytes, and the rest
\* is well-formed
Utf8Sequence(b, q, need) ==
    /\ need >= 1
    /\ q + need <= Len(b)
    /\ \A i \in (q + 1)..(q + need) : b[i] >= 128 /\ b[i] <= 191
    /\ Utf8From(b, q + need + 1)

\* whether b from the byte at q on, which is not ASCII, is well-formed
Utf8At(b, q) == Utf8Sequence(b, q, Utf8Need(b[q]))

\* whether b from position p on is well-formed: ASCII bytes, or a lead byte
\* with its continuation bytes
Utf8From(b, p) ==
    IF \A i \in p..Len(b) : b[i] < 128 THEN TRUE
    ELSE Utf8At(b, Min({i \in p..Len(b) : b[i] >= 128}))

\* str::from_utf8(b).is_ok()
Utf8Valid(b) == Utf8From(b, 1)

JsonFail == [ok |-> FALSE]

\* the position of the first byte of b from p on that is no white space
\* (Len(b) + 1 when there is none)
JsonSkipWs(b, p) ==
    Min({i \in p..Len(b) : b[i] \notin {32, 9, 10, 13}} \cup {(IF p > Len(b) THEN p ELSE Len(b) + 1)})

\* the first of the positions stops when a quote (34) is there, else 0
JsonQuoteAt(b, stops) ==
    IF stops = {} THEN 0
    ELSE IF b[Min(stops)] = 34 THEN Min(stops) ELSE 0

\* the position of the quote closing the string whose text starts at p; 0
\* when there is none, or a control character or a backslash comes first
\* (escape sequences are outside the modelled texts)
JsonStringEnd(b, p) ==
    JsonQuoteAt(b, {i \in p..Len(b) : b[i] = 34 \/ b[i] < 32 \/ b[i] = 92})

\* the string whose opening quote is at p and whose closing one is at e
JsonStringTo(b, p, e) ==
    IF e = 0 THEN JsonFail
    ELSE [ok |-> TRUE, kind |-> "str", val |-> SubSeq(b, p + 1, e - 1), next |-> e + 1]

\* a string at p: its text and the position after it
JsonReadString(b, p) ==
    IF p > Len(b) \/ b[p] # 34 THEN JsonFail
    ELSE JsonStringTo(b, p, JsonStringEnd(b, p + 1))

RECURSIVE JsonReadItems(_, _, _)
\* what follows at q the item s of an array: its end, or a comma and the
\* rest of the items
JsonItemsNext(b, s, q, acc) ==
    IF q > Len(b) THEN JsonFail
    ELSE IF b[q] = 93
        THEN [ok |-> TRUE, kind |-> "arr", val |-> Append(acc, s.val), next |-> q + 1]
    ELSE IF b[q] = 44 THEN JsonReadItems(b, q + 1, Append(acc, s.val))
    ELSE JsonFail

\* the array whose next item has been read as s
JsonItemsAfter(b, s, acc) ==
    IF ~s.ok THEN JsonFail ELSE JsonItemsNext(b, s, JsonSkipWs(b, s.next), acc)

\* the strings of an array after its "[" or after a comma
JsonReadItems(b, p, acc) ==
    JsonItemsAfter(b, JsonReadString(b, JsonSkipWs(b, p)), acc)

\* the array whose "[" is at p and whose first token is at q
JsonReadArray(b, p, q) ==
    IF q <= Len(b) /\ b[q] = 93
    THEN [ok |-> TRUE, kind |-> "arr", val |-> <<>>, next |-> q + 1]
    ELSE JsonReadItems(b, p + 1, <<>>)

\* a value at p: a string, null, or an array of strings (the values a
\* ShareDataJson member takes; the modelled texts hold no other)
JsonReadValue(b, p) ==
    IF p > Len(b) THEN JsonFail
    ELSE IF b[p] = 34 THEN JsonReadString(b, p)
    ELSE IF b[p] = 91 THEN JsonReadArray(b, p, JsonSkipWs(b, p + 1))
    ELSE IF p + 3 <= Len(b) /\ SubSeq(b, p, p + 3) = JsonNull
        THEN [ok |-> TRUE, kind |-> "null", val |-> <<>>, next |-> p + 4]
    ELSE JsonFail

\* the member (key, value) visited on the struct j: the derived Deserialize
\* refuses a known key seen twice and a value of the wrong type, and ignores
\* an unknown key
JsonVisit(j, key, v) ==
    IF key = KeyShamirData THEN
        IF j.seen_data \/ v.kind # "str" THEN JsonFail
        ELSE [j EXCEPT !.seen_data = TRUE, !.shamir_data = v.val]
    ELSE IF key = KeySignature THEN
        IF j.seen_sig \/ v.kind = "str" THEN JsonFail
        ELSE [j EXCEPT !.seen_sig = TRUE,
                       !.signature = IF v.kind = "arr" THEN Some(v.val) ELSE None]
    ELSE IF key = KeyProof THEN
        IF j.seen_proof \/ v.kind = "arr" THEN JsonFail
        ELSE [j EXCEPT !.seen_proof = TRUE,
                       !.proof = IF v.kind = "str" THEN Some(v.val) ELSE None]
    ELSE j

RECURSIVE JsonReadMembers(_, _, _)
\* what follows at q a member visited as j2: the end of the object, or a
\* comma and the rest of the members
JsonMemberEnd(b, j2, q) ==
    IF ~j2.ok \/ q > Len(b) THEN JsonFail
    ELSE IF b[q] = 125 THEN [j2 EXCEPT !.next = q + 1]
    ELSE IF b[q] = 44 THEN JsonReadMembers(b, q + 1, j2)
    ELSE JsonFail

\* the member whose key k and value v have been read
JsonMemberValue(b, k, v, j) ==
    IF ~v.ok THEN JsonFail
    ELSE JsonMemberEnd(b, JsonVisit(j, k.val, v), JsonSkipWs(b, v.next))

\* the member whose key k has been read, the next token at c
JsonMemberColon(b, k, c, j) ==
    IF c > Len(b) THEN JsonFail
    ELSE IF b[c] # 58 THEN JsonFail
    ELSE JsonMemberValue(b, k, JsonReadValue(b, JsonSkipWs(b, c + 1)), j)

\* the member whose key has been read as k
JsonMemberKey(b, k, j) ==
    IF ~k.ok THEN JsonFail ELSE JsonMemberColon(b, k, JsonSkipWs(b, k.next), j)

\* the members of an object after its "{" or after a comma
JsonReadMembers(b, p, j) ==
    JsonMemberKey(b, JsonReadString(b, JsonSkipWs(b, p)), j)

\* the struct before any member is visited
JsonStart ==
    [ok |-> TRUE, seen_data |-> FALSE, seen_sig |-> FALSE, seen_proof |-> FALSE,
     shamir_data |-> <<>>, signature |-> None, proof |-> None, next |-> 0]

\* the object whose first token after "{" is at q
JsonObjectBody(b, q) ==
    IF q > Len(b) THEN JsonFail
    ELSE IF b[q] = 125 THEN [JsonStart EXCEPT !.next = q + 1]
    ELSE JsonReadMembers(b, q, JsonStart)

\* the object at p
JsonObject(b, p) ==
    IF p > Len(b) THEN JsonFail
    ELSE IF b[p] # 123 THEN JsonFail
    ELSE JsonObjectBody(b, JsonSkipWs(b, p + 1))

\* the struct of the object read as j, nothing but white space after it
JsonFinish(b, j) ==
    IF ~j.ok THEN Err("JsonSyntax")
    ELSE IF JsonSkipWs(b, j.next) <= Len(b) THEN Err("JsonTrailing")
    ELSE IF ~j.seen_data THEN Err("JsonMissingField")
    ELSE Ok([shamir_data |-> j.shamir_data, signature |-> j.signature,
             proof |-> j.proof])

\* serde_json::from_str::<ShareDataJson>(text): one object, white space
\* around it, nothing after it; shamir_data is required, a missing Option
\* member is None
JsonFromStr(b) == JsonFinish(b, JsonObject(b, JsonSkipWs(b, 1)))

---------------------------------------------------------------------------
(* share_format.rs *)

\* format!("{}-{}-{}", a, b, text) for a, b: u8
FormatShare(a, b, text) == FormatU8(a) \o <<"-">> \o FormatU8(b) \o <<"-">> \o text

\* String::into_bytes() of a text of digits, "-" and base64 characters: the
\* ASCII codes of its characters
into_bytes(text) ==
    AsSeq([i \in 1..Len(text) |->
        IF text[i] = "-" THEN 45
        ELSE IF text[i] = "=" THEN 61
        ELSE B64Ascii(B64Index[text[i]])])

format_share_for_signing(k, i, data) ==
    into_bytes(FormatShare(k, i, to_base64(data, base64_config)))

profobuf_share_string_from(share, threshold, share_num, signature_pair) ==
    LET unsigned == [ShareDataNew EXCEPT !.shamir_data = share]
        share_protobuf ==
            IF IsSome(signature_pair)
            THEN [unsigned EXCEPT !.signature = Unwrap(signature_pair)[1],
                                  !.proof = ProofWriteToBytes(Unwrap(signature_pair)[2])]
            ELSE unsigned
        b64_share == to_base64(ShareDataWriteToBytes(share_protobuf), base64_config)
    IN  FormatShare(threshold, share_num, b64_share)

json_share_string_from(share, threshold, share_num, signature_pair) ==
    LET share_json ==
            [shamir_data |-> base64_encode(share),
             signature |->
                IF IsSome(signature_pair)
                THEN Some(AsSeq([i \in 1..Len(Unwrap(signature_pair)[1]) |->
                             base64_encode(Unwrap(signature_pair)[1][i])]))
                ELSE None,
             proof |->
                IF IsSome(signature_pair)
                THEN Some(base64_encode(ProofWriteToBytes(Unwrap(signature_pair)[2])))
                ELSE None]
        share_json_str == JsonToString(share_json)
        b64_share == to_base64(share_json_str, base64_config)
    IN  FormatShare(threshold, share_num, b64_share)

\* share_string_from with the threshold and the share number exchanged: a
\* fault the codec round trip excludes
share_string_from_swapped(share, threshold, share_num, serde_kind, signature_pair) ==
    IF serde_kind = "Protobuf"
    THEN profobuf_share_string_from(share, share_num, threshold, signature_pair)
    ELSE json_share_string_from(share, share_num, threshold, signature_pair)

share_string_from(share, threshold, share_num, serde_kind, signature_pair) ==
    IF serde_kind = "Protobuf"
    THEN profobuf_share_string_from(share, threshold, share_num, signature_pair)
    ELSE json_share_string_from(share, threshold, share_num, signature_pair)

\* RustyError::with_type(RustyErrorTypes::ShareParsingError(index, detail))
ShareParsingError(index, detail) ==
    [tag |-> "Err", kind |-> "ShareParsingError", index |-> index, detail |-> detail]

\* pie2error: the RustyError of a ParseIntError
pie2error == [tag |-> "Err", kind |-> "ParseIntError"]

\* the signed share of a message whose proof parses as p_result
ProtobufSigned(protobuf_data, p_result, k, n) ==
    IF IsErr(p_result) THEN Panic("p_result.unwrap()")
    ELSE IF ~IsSome(p_result.val) THEN Panic("p_opt.unwrap()")
    ELSE Ok(<<protobuf_data.shamir_data, k, n,
              Some(<<protobuf_data.signature, Unwrap(p_result.val)>>)>>)

\* the share of the message that parse_from_bytes returns as parsed
ProtobufShare(parsed, index, is_signed, k, n) ==
    IF IsErr(parsed)
        THEN ShareParsingError(index, "Protobuf decoding of data block failed")
    ELSE IF ~is_signed THEN Ok(<<parsed.val.shamir_data, k, n, None>>)
    ELSE ProtobufSigned(parsed.val, ProofParseFromBytes(parsed.val.proof), k, n)

protobuf_share_from_string(raw_data, index, is_signed, k, n) ==
    ProtobufShare(ShareDataParseFromBytes(raw_data), index, is_signed, k, n)

\* json_data.signature.unwrap().iter().map(|s| decode(&s)): every decoding
DecodedAll(sigs) == AsSeq([i \in 1..Len(sigs) |-> base64_decode(sigs[i])])

\* the signed share with the proof p and the decodings of the signature
JsonSigned(share, signature, p, k, n) ==
    IF \E i \in 1..Len(signature) : IsErr(signature[i]) THEN Panic("decode(&s).unwrap()")
    ELSE Ok(<<share, k, n,
              Some(<<AsSeq([i \in 1..Len(signature) |-> signature[i].val]), p>>)>>)

\* the signed share whose proof parses as p_result
JsonProof(json_data, share, p_result, k, n) ==
    IF IsErr(p_result) THEN Panic("p_result.unwrap()")
    ELSE IF ~IsSome(p_result.val) THEN Panic("p_opt.unwrap()")
    ELSE IF ~IsSome(json_data.signature) THEN Panic("json_data.signature.unwrap()")
    ELSE JsonSigned(share, DecodedAll(Unwrap(json_data.signature)),
                    Unwrap(p_result.val), k, n)

\* the signed share whose proof decodes as p_bytes
JsonProofBytes(json_data, share, p_bytes, k, n) ==
    IF IsErr(p_bytes) THEN Panic("decode(&json_data.proof.unwrap()).unwrap()")
    ELSE JsonProof(json_data, share, ProofParseFromBytes(p_bytes.val), k, n)

\* the share of json_data, whose shamir_data decodes as share
JsonShareData(json_data, share, is_signed, k, n) ==
    IF IsErr(share) THEN Panic("decode(&json_data.shamir_data).unwrap()")
    ELSE IF ~is_signed THEN Ok(<<share.val, k, n, None>>)
    ELSE IF ~IsSome(json_data.proof) THEN Panic("json_data.proof.unwrap()")
    ELSE JsonProofBytes(json_data, share.val, base64_decode(Unwrap(json_data.proof)), k, n)

\* the share of the struct that serde_json::from_str returns as parsed
JsonShare(parsed, is_signed, k, n) ==
    IF IsErr(parsed) THEN Panic("serde_json::from_str(..).unwrap()")
    ELSE JsonShareData(parsed.val, base64_decode(parsed.val.shamir_data), is_signed, k, n)

json_share_from_string(raw_data, index, is_signed, k, n) ==
    IF ~Utf8Valid(raw_data) THEN Panic("str::from_utf8(&raw_data).unwrap()")
    ELSE JsonShare(JsonFromStr(raw_data), is_signed, k, n)

\* the share of the body p3, with the k and n parsed
ShareFromBody(raw_data, index, is_signed, share_format, k, n) ==
    IF IsErr(raw_data)
        THEN ShareParsingError(index, "Base64 decoding of data block failed")
    ELSE IF share_format = "Protobuf"
        THEN protobuf_share_from_string(raw_data.val, index, is_signed, k, n)
    ELSE json_share_from_string(raw_data.val, index, is_signed, k, n)

\* the share of the three parts, with k and n as parse::<u8>() gives them
ShareFromNumbers(k, n, p3, index, is_signed, share_format) ==
    IF k = -1 THEN pie2error
    ELSE IF n = -1 THEN pie2error
    ELSE IF k < 1 \/ n < 1 THEN ShareParsingError(index, "Found illegal parameters")
    ELSE ShareFromBody(from_base64(p3), index, is_signed, share_format, k, n)

\* the share of the parts of the trimmed string
ShareFromParts(parts, index, is_signed, share_format) ==
    IF Len(parts) # 3
        THEN ShareParsingError(index, "Expected 3 parts separated by a minus sign")
    ELSE ShareFromNumbers(ParseU8(parts[1]), ParseU8(parts[2]), parts[3],
                          index, is_signed, share_format)

share_from_string_format(s, index, is_signed, share_format) ==
    ShareFromParts(Split(Trim(s), "-"), index, is_signed, share_format)

---------------------------------------------------------------------------
(* gf256: GF(2^8) with the reduction polynomial x^8 + x^4 + x^3 + x + 1    *)
(* (0x11B), table-driven over the generator 3.                             *)

RECURSIVE Xor(_, _)
\* the bitwise exclusive or of two numbers: addition in the field
Xor(a, b) ==
    IF a = 0 THEN b
    ELSE IF b = 0 THEN a
    ELSE ((a + b) % 2) + 2 * Xor(a \div 2, b \div 2)

\* x times 2 in the field: a shift, reduced by 0x11B when bit 8 is set
XTime(x) == IF 2 * x < 256 THEN 2 * x ELSE Xor(2 * x - 256, 27)

\* x times the generator 3
Mul3(x) == Xor(XTime(x), x)

RECURSIVE ShiftAndAdd(_, _)
\* a * b by shift and add, used to build the tables only
ShiftAndAdd(a, b) ==
    IF b = 0 THEN 0
    ELSE Xor(IF b % 2 = 1 THEN a ELSE 0, ShiftAndAdd(XTime(a), b \div 2))

RECURSIVE PowerOf3(_)
\* 3^i, by squaring
PowerOf3(i) ==
    IF i = 0 THEN 1
    ELSE IF i % 2 = 1 THEN Mul3(PowerOf3(i - 1))
    ELSE LET h == PowerOf3(i \div 2) IN ShiftAndAdd(h, h)

\* exp[i] = 3^i for i in 0..254, held at index i + 1
GfExp == AsSeq([i \in 1..255 |-> PowerOf3(i - 1)])

\* log[a] for a in 1..255: the i with 3^i = a
GfLog == AsSeq([a \in 1..255 |-> (CHOOSE i \in 1..255 : GfExp[i] = a) - 1])

GfAdd(a, b) == Xor(a, b)

\* a * b = exp[(log a + log b) mod 255] when both are nonzero, else 0
GfMul(a, b) ==
    IF a = 0 \/ b = 0 THEN 0 ELSE GfExp[((GfLog[a] + GfLog[b]) % 255) + 1]

\* the inverse of a # 0: exp[(255 - log a) mod 255]
GfInv(a) == GfExp[((255 - GfLog[a]) % 255) + 1]

---------------------------------------------------------------------------
(* interpolation: the polynomial codec *)

RECURSIVE Horner(_, _)
\* p(x) for the polynomial with the coefficients src, constant term first
Horner(src, x) ==
    IF src = <<>> THEN 0 ELSE GfAdd(Head(src), GfMul(x, Horner(Tail(src), x)))

\* encode(src, n, w): p(1), p(2), .., p(n) written to w
encode(src, n) == AsSeq([x \in 1..n |-> Horner(src, x)])

RECURSIVE GfProduct(_)
GfProduct(xs) == IF xs = <<>> THEN 1 ELSE GfMul(Head(xs), GfProduct(Tail(xs)))

RECURSIVE GfSum(_)
GfSum(xs) == IF xs = <<>> THEN 0 ELSE GfAdd(Head(xs), GfSum(Tail(xs)))

\* x_m / (x_m - x_j)
LagrangeFactor(xm, xj) == GfMul(xm, GfInv(GfAdd(xm, xj)))

\* y_j times the product over m # j of x_m / (x_m - x_j)
LagrangeTerm(points, j) ==
    GfMul(points[j][2],
          GfProduct(AsSeq([m \in 1..Len(points) |->
              IF m = j THEN 1 ELSE LagrangeFactor(points[m][1], points[j][1])])))

\* lagrange_interpolate(points): p(0) for the points <<x, y>>, the sum of the
\* terms
lagrange_interpolate(points) ==
    GfSum(AsSeq([j \in 1..Len(points) |-> LagrangeTerm(points, j)]))

---------------------------------------------------------------------------
(* validation: the checks between parsing and interpolation *)

\* whether the bundle of a parsed share verifies: the one-time signature is
\* the leaf key's signature of the share's signing form
SignatureVerifies(parsed) ==
    LET bundle == Unwrap(parsed[4])
        form == format_share_for_signing(parsed[2], parsed[3], parsed[1])
    IN  bundle[1] = << bundle[2].value \o Digest(form) >>

\* the checks on the parsed shares, k the threshold of the first
ValidateParsed(parsed, k, verify_signatures) ==
    IF \E i \in 1..Len(parsed) : parsed[i][2] # k THEN Err("InconsistentShares")
    ELSE IF \E i \in 1..Len(parsed) : Len(parsed[i][1]) # Len(parsed[1][1])
        THEN Err("InconsistentShares")
    ELSE IF \E i, j \in 1..Len(parsed) : i # j /\ parsed[i][3] = parsed[j][3]
        THEN Err("InconsistentShares")
    ELSE IF Len(parsed) < k THEN Err("InsufficientShares")
    ELSE IF verify_signatures /\ \E i \in 1..Len(parsed) : ~IsSome(parsed[i][4])
        THEN Err("SignatureMissing")
    ELSE IF verify_signatures
            /\ \E i \in 1..Len(parsed) :
                  \/ Unwrap(parsed[i][4])[2].root_hash # Unwrap(parsed[1][4])[2].root_hash
                  \/ ~SignatureVerifies(parsed[i])
        THEN Err("SignatureInvalid")
    ELSE Ok(<<k, AsSeq([i \in 1..Len(parsed) |-> <<parsed[i][3], parsed[i][1]>>])>>)

\* the checks on what parsing the shares gave: the first failure, else the
\* checks on the parsed shares
ValidateResults(results, verify_signatures) ==
    IF results = <<>> THEN Err("InsufficientShares")
    ELSE IF \E i \in 1..Len(results) : ~IsOk(results[i])
        THEN results[Min({i \in 1..Len(results) : ~IsOk(results[i])})]
    ELSE ValidateParsed(AsSeq([i \in 1..Len(results) |-> results[i].val]),
                        results[1].val[2], verify_signatures)

\* process_and_validate_shares(shares, verify_signatures, share_format):
\* Ok(<<k, the pairs <<index, payload>> >>) or the first failure
process_and_validate_shares(shares, verify_signatures, share_format) ==
    ValidateResults(
        AsSeq([i \in 1..Len(shares) |->
            share_from_string_format(shares[i], (i - 1) % 256, verify_signatures,
                                     share_format)]),
        verify_signatures)

---------------------------------------------------------------------------
(* sss.rs *)

\* the shares of the columns: share i holds element i of every column
Transposed(columns, n) ==
    AsSeq([i \in 1..n |-> AsSeq([c \in 1..Len(columns) |-> columns[c][i]])])

\* secret_share with the bytes drawn for the first position used for every
\* position: a fault the independence of the positions excludes
secret_share_reusing(src, k, n, rng_ok, draws) ==
    IF ~rng_ok THEN Err("Io")
    ELSE IF src # <<>> /\ k = 0 THEN Panic("col_in[0] = s")
    ELSE Ok(Transposed(AsSeq([c \in 1..Len(src) |-> encode(<<src[c]>> \o draws[1], n)]), n))

\* secret_share going on when OsRng::new() fails: a fault the atomicity of
\* the failure excludes
secret_share_unchecked(src, k, n, rng_ok, draws) ==
    IF src # <<>> /\ k = 0 THEN Panic("col_in[0] = s")
    ELSE Ok(Transposed(AsSeq([c \in 1..Len(src) |-> encode(<<src[c]>> \o draws[c], n)]), n))

\* secret_share(src, k, n).  rng_ok is whether OsRng::new() succeeds, and
\* draws[c] are the k - 1 bytes that fill_bytes writes to col_in[1..] for
\* the byte position c.
secret_share(src, k, n, rng_ok, draws) ==
    IF ~rng_ok THEN Err("Io")
    ELSE IF src # <<>> /\ k = 0 THEN Panic("col_in[0] = s")
    ELSE Ok(Transposed(AsSeq([c \in 1..Len(src) |-> encode(<<src[c]>> \o draws[c], n)]), n))

\* shares_to_sign with share i (from 0) signed as share i: a fault the
\* binding of the signature to the share number excludes
shares_to_sign_from_zero(shares, k) ==
    AsSeq([i \in 1..Len(shares) |->
        format_share_for_signing(k, (i - 1) % 256, shares[i])])

\* the forms handed to sign_data_vec: share i (from 0) is signed as share
\* (i + 1) as u8
shares_to_sign(shares, k) ==
    AsSeq([i \in 1..Len(shares) |-> format_share_for_signing(k, i % 256, shares[i])])

\* result_strings with the share number reduced modulo 255: a fault the
\* numbering up to 255 excludes
result_strings_wrapping(shares, k, share_format, signatures) ==
    AsSeq([i \in 1..Len(shares) |->
        share_string_from(shares[i], k, i % 255, share_format,
                          IF IsSome(signatures) THEN Some(Unwrap(signatures)[i]) ELSE None)])

\* the strings pushed to result: share index (from 0) is serialised as share
\* (index + 1) as u8, with its signature pair when there are signatures
result_strings(shares, k, share_format, signatures) ==
    AsSeq([i \in 1..Len(shares) |->
        share_string_from(shares[i], k, i % 256, share_format,
                          IF IsSome(signatures) THEN Some(Unwrap(signatures)[i]) ELSE None)])

\* the part of generate_shares_format after secret_share
share_strings(shares, k, sign_shares, share_format) ==
    result_strings(shares, k, share_format,
                   IF sign_shares THEN Some(sign_data_vec(shares_to_sign(shares, k)))
                   ELSE None)

\* generate_shares_format with what secret_share returned
GenerateFrom(shares, k, n, sign_shares, share_format) ==
    IF k > n THEN Err("Threshold K can not be larger than N")
    ELSE IF ~IsOk(shares) THEN shares
    ELSE Ok(share_strings(shares.val, k, sign_shares, share_format))

generate_shares_format(k, n, secret, sign_shares, share_format, rng_ok, draws) ==
    GenerateFrom(secret_share(secret, k, n, rng_ok, draws), k, n, sign_shares, share_format)

\* SecretOf over one share fewer than k: a fault the round trip excludes
SecretOfFewer(valid, k) ==
    AsSeq([byteindex \in 1..Len(valid[1][2]) |->
        lagrange_interpolate(
            AsSeq([j \in 1..(k - 1) |-> <<valid[j][1], valid[j][2][byteindex]>>]))])

\* SecretOf with the position of a share among those given taken for its
\* number: a fault the recovery from any k shares in any order excludes
SecretOfByPosition(valid, k) ==
    AsSeq([byteindex \in 1..Len(valid[1][2]) |->
        lagrange_interpolate(
            AsSeq([j \in 1..k |-> <<j, valid[j][2][byteindex]>>]))])

\* the secret of the first k of the valid shares: the interpolation at 0, byte
\* position by byte position
SecretOf(valid, k) ==
    AsSeq([byteindex \in 1..Len(valid[1][2]) |->
        lagrange_interpolate(
            AsSeq([j \in 1..k |-> <<valid[j][1], valid[j][2][byteindex]>>]))])

\* recover_secret_format with what process_and_validate_shares returned
RecoverFrom(validated) ==
    IF ~IsOk(validated) THEN validated
    ELSE Ok(SecretOf(Take(validated.val[2], validated.val[1]), validated.val[1]))

recover_secret_format(shares, verify_signatures, share_format) ==
    RecoverFrom(process_and_validate_shares(shares, verify_signatures, share_format))

---------------------------------------------------------------------------
(* The calls the model makes, and the sets their arguments are drawn from *)

\* the largest share count, and the largest threshold, of the small cases
MaxN == 3

MaxK == 3

\* the largest value of a u8
U8Max == 255

Formats == {"Protobuf", "Json"}

\* the secrets that are shared: the empty one, and one and two bytes
Secrets == {<<>>, <<97>>, <<0>>, <<97, 98>>, <<255, 0>>}

\* the values a drawn coefficient takes
DrawBytes == {0, 200}

\* the (k, n) of the calls: every pair of the small cases, valid or not, and
\* the largest share count
Params ==
    ((0..MaxK) \X (0..MaxN)) \cup {<<1, U8Max>>}

\* the sequences of distinct elements of S with len elements
RECURSIVE Arrangements(_, _)
Arrangements(S, len) ==
    IF len = 0 THEN {<<>>}
    ELSE UNION {{Append(a, x) : x \in S \ Range(a)} : a \in Arrangements(S, len - 1)}

Init ==
    /\ op = "idle"
    /\ args = <<>>
    /\ ret = <<>>
    /\ aux = <<>>

\* generate_shares_format(k, n, secret, sign_shares, share_format), with the
\* randomness source failing or not and with the bytes it hands out
Generate ==
    /\ op = "idle"
    /\ \E p \in Params, secret \in Secrets, sign_shares \in BOOLEAN,
          share_format \in Formats, rng_ok \in BOOLEAN :
       \E draws \in [1..Len(secret) -> [1..(IF p[1] = 0 THEN 0 ELSE p[1] - 1) -> DrawBytes]] :
          \* signing no share at all is left out
          /\ ~(sign_shares /\ p[2] = 0)
          \* a failing source hands out nothing
          /\ rng_ok \/ \A c \in 1..Len(secret), j \in 1..(p[1] - 1) : draws[c][j] = 0
          /\ op' = "generate"
          /\ args' = [k |-> p[1], n |-> p[2], secret |-> secret,
                      sign_shares |-> sign_shares, share_format |-> share_format,
                      rng_ok |-> rng_ok]
          /\ ret' = generate_shares_format(p[1], p[2], secret, sign_shares, share_format,
                                           rng_ok, draws)
          /\ aux' = draws

\* the share numbers a recovery picks from a generated set of n
PickFrom(n) == (1..(IF n < MaxN THEN n ELSE MaxN)) \cup (IF n > 0 THEN {n} ELSE {})

\* recover_secret_format(shares, verify_signatures, share_format) on shares
\* picked from the generated set: any k of them in any order, the first k - 1,
\* all of them in the order generated, and one share given twice
Recover ==
    /\ op = "generate"
    /\ IsOk(ret)
    /\ \E pick \in Arrangements(PickFrom(args.n), args.k)
                   \cup {AsSeq([i \in 1..(IF args.k > 0 THEN args.k - 1 ELSE 0) |-> i])}
                   \cup {AsSeq([i \in 1..(IF args.n <= MaxN THEN args.n ELSE 0) |-> i])}
                   \cup {<<i, i>> : i \in PickFrom(args.n)},
          verify_signatures \in {FALSE, args.sign_shares} :
          /\ op' = "recover"
          /\ args' = [generated |-> args, pick |-> pick,
                      shares |-> AsSeq([i \in 1..Len(pick) |-> ret.val[pick[i]]]),
                      verify_signatures |-> verify_signatures,
                      share_format |-> args.share_format]
          /\ ret' = recover_secret_format(args'.shares, verify_signatures,
                                          args.share_format)
          /\ aux' = aux

\* the payloads of the codec and signing-form calls
Payloads == {<<>>, <<0>>, <<97>>, <<255, 0>>, <<1, 2, 3>>}

\* the thresholds and share numbers of the codec calls: one, two and three
\* digits, and the largest
CodecNumbers == {1, 9, 10, 99, 100, U8Max}

\* share_from_string_format(share_string_from(P, k, i, F, None), idx, false, F)
Codec ==
    /\ op = "idle"
    /\ \E share \in Payloads, threshold \in CodecNumbers, share_num \in CodecNumbers,
          share_format \in Formats :
          LET text == share_string_from(share, threshold, share_num, share_format, None)
          IN  /\ op' = "codec"
              /\ args' = [share |-> share, threshold |-> threshold,
                          share_num |-> share_num, share_format |-> share_format]
              /\ aux' = text
              /\ ret' = share_from_string_format(text, 0, FALSE, share_format)

\* the thresholds and share numbers of the signing forms: such that the
\* digits of one pair are the digits of another
FormNumbers == {1, 11}

\* the triples (k, i, P) a signing form is made of
FormTriples == FormNumbers \X (FormNumbers \cup {111}) \X (Payloads \ {<<1, 2, 3>>})

\* format_share_for_signing on two triples
SigningForm ==
    /\ op = "idle"
    /\ \E a \in FormTriples, b \in FormTriples :
          /\ op' = "signing_form"
          /\ args' = <<a, b>>
          /\ aux' = <<>>
          /\ ret' = <<format_share_for_signing(a[1], a[2], a[3]),
                      format_share_for_signing(b[1], b[2], b[3])>>

\* the payload bytes observed and the candidate secret bytes
ObservedBytes == {0, 1, 128, 255}

Candidates == {0, 1, 2, 97, 127, 128, 200, 255}

\* the observations of k - 1 shares of a k-out-of-n sharing of one byte: the
\* share numbers xs, their payload bytes ys and a candidate secret byte s;
\* every one for k = 2, and some for k = 3
Observations ==
    { [k |-> 2, xs |-> <<x>>, ys |-> <<y>>, s |-> s] :
        x \in 1..MaxN, y \in ObservedBytes, s \in Candidates }
    \cup { [k |-> 3, xs |-> xs, ys |-> <<128, 7>>, s |-> s] :
             xs \in {<<3, 1>>}, s \in {0, 97} }

\* whether secret_share, drawing the coefficients draw for the byte s, gives
\* every observed share its observed payload
Explains(o, draw) ==
    \A i \in 1..Len(o.xs) :
        secret_share(<<o.s>>, o.k, o.xs[i], TRUE, <<draw>>).val[o.xs[i]] = <<o.ys[i]>>

\* what k - 1 shares tell: the draws of the k - 1 coefficients that explain
\* the observation under the candidate secret byte
Observe ==
    /\ op = "idle"
    /\ \E o \in Observations :
          /\ op' = "observe"
          /\ args' = o
          /\ aux' = <<>>
          /\ ret' = {draw \in [1..(o.k - 1) -> Byte] : Explains(o, draw)}

\* the third field of a share string
BodyOf(text) == Split(text, "-")[3]

\* the body of a share string made of the body bytes
BodyText(bytes) == to_base64(bytes, base64_config)

\* the signature pair of the one share <<97>> of a 1-out-of-1 sharing
OnePair == sign_data_vec(<<format_share_for_signing(1, 1, <<97>>)>>)[1]

\* a Textual body with the given shamir_data text and nothing else
JsonOnly(text) == <<123>> \o JsonQuoted(KeyShamirData) \o <<58>> \o JsonQuoted(text) \o <<125>>

\* the bodies of the parsed strings: the unsigned and the signed body of
\* the share <<97>> in either format, and bodies that are not well-formed
ParseBodies ==
    { BodyOf(share_string_from(<<97>>, 1, 1, "Protobuf", None)),
      BodyOf(share_string_from(<<97>>, 1, 1, "Protobuf", Some(OnePair))),
      BodyOf(share_string_from(<<97>>, 1, 1, "Json", None)),
      BodyOf(share_string_from(<<97>>, 1, 1, "Json", Some(OnePair))),
      \* a Textual body without signature and proof members, and the empty object
      BodyText(JsonOnly(base64_encode(<<97>>))),
      BodyText(<<123, 125>>),
      \* a Textual body whose shamir_data is no base64
      BodyText(JsonOnly(<<33>>)),
      \* three zero bytes, a field that ends after the body, a byte that is no UTF-8
      BodyText(<<0, 0, 0>>),
      BodyText(<<10, 5, 97>>),
      BodyText(<<255>>),
      \* the empty body
      <<>>,
      \* the URL-safe alphabet, a line break, padding
      <<"C", "g", "H", "_">>,
      <<"C", "g", "\n", "F", "h">>,
      to_base64(ShareDataWriteToBytes([ShareDataNew EXCEPT !.shamir_data = <<97, 98>>]),
                [pad |-> TRUE]),
      \* a character outside every alphabet, and a sextet left over
      <<"C", "g", "!", "h">>,
      <<"C", "g", "F", "h", "C">> }

\* the K fields and the I fields of the parsed strings
ParseK ==
    { <<"1">>, <<"0">>, <<"2", "5", "5">>, <<"2", "5", "6">>, <<"+", "1">>,
      <<"0", "1">>, <<"a">>, <<>> }

ParseI == { <<"1">>, <<"0">>, <<"+", "2">>, <<"x">>, <<"3", "0", "0">> }

\* the strings parsed: K-I-B for the fields above, and for the well-formed
\* Binary body two fields, four fields and white space around the string
ParseInputs ==
    { k \o <<"-">> \o i \o <<"-">> \o b : k \in ParseK, i \in ParseI, b \in ParseBodies }
    \cup { <<"1", "-", "C", "g", "F", "h">>,
           <<"1", "-", "1", "-", "C", "g", "F", "h", "-", "1">>,
           <<" ", "1", "-", "1", "-", "C", "g", "F", "h", "\n">>,
           <<"1", " ", "-", "1", "-", "C", "g", "F", "h">>,
           <<>> }

\* share_from_string_format(s, index, is_signed, share_format)
Parse ==
    /\ op = "idle"
    /\ \E s \in ParseInputs, is_signed \in BOOLEAN, share_format \in Formats :
          /\ op' = "parse"
          /\ args' = [s |-> s, index |-> 0, is_signed |-> is_signed,
                      share_format |-> share_format]
          /\ aux' = <<>>
          /\ ret' = share_from_string_format(s, 0, is_signed, share_format)

Next == Generate \/ Recover \/ Parse \/ Codec \/ SigningForm \/ Observe

Spec == Init /\ [][Next]_vars

---------------------------------------------------------------------------
(* The properties *)

\* whether the call that ran generated shares with 1 <= k <= n
ValidGenerate(a) == a.k >= 1 /\ a.k <= a.n /\ a.rng_ok

\* the numbers 1 .. n in a sequence
Identity(n) == AsSeq([i \in 1..n |-> i])

\* C1: a recovery without signature verification from all the shares of an
\* unsigned generation with 1 <= k <= n and a secret of at least one byte, in
\* the order generated and in the format generated, returns Ok of the secret,
\* whatever bytes were drawn.
C1_UnsignedRoundTrip ==
    (/\ op = "recover"
     /\ ValidGenerate(args.generated)
     /\ args.generated.secret # <<>>
     /\ ~args.generated.sign_shares
     /\ ~args.verify_signatures
     /\ args.pick = Identity(args.generated.n))
    => ret = Ok(args.generated.secret)

\* C1's case: all three shares of a 2-out-of-3 Textual sharing of two bytes,
\* drawn coefficients not zero, give the secret back
C1_Witness ==
    /\ op = "recover"
    /\ args.generated.k = 2 /\ args.generated.n = 3
    /\ args.generated.secret = <<255, 0>>
    /\ args.generated.share_format = "Json"
    /\ ~args.generated.sign_shares /\ ~args.verify_signatures
    /\ args.pick = <<1, 2, 3>>
    /\ aux = <<<<200>>, <<200>>>>
    /\ ret = Ok(<<255, 0>>)

\* C2: a recovery from exactly k distinct shares of one generation with
\* 1 <= k <= n, in any order, signed or not, returns Ok of the secret.
C2_SubsetSufficiency ==
    (/\ op = "recover"
     /\ ValidGenerate(args.generated)
     /\ Len(args.pick) = args.generated.k
     /\ Cardinality(Range(args.pick)) = args.generated.k)
    => ret = Ok(args.generated.secret)

\* C2's case: the shares 3 and 1, in this order, of a signed 2-out-of-3
\* sharing give the secret back with the signatures verified
C2_Witness ==
    /\ op = "recover"
    /\ args.generated.k = 2 /\ args.generated.n = 3
    /\ args.generated.secret = <<97, 98>>
    /\ args.generated.sign_shares /\ args.verify_signatures
    /\ args.pick = <<3, 1>>
    /\ aux = <<<<200>>, <<0>>>>
    /\ ret = Ok(<<97, 98>>)

\* the payload parsed back from a share string of the call that ran
PayloadOf(text) ==
    share_from_string_format(text, 0, FALSE, args.share_format).val[1]

\* C3: k - 1 shares of a k-out-of-n sharing reveal nothing about a secret
\* byte: for the share numbers, the payload bytes observed and every candidate
\* secret byte there is exactly one draw of the k - 1 coefficients that
\* explains the observation, the same number for every candidate; and in
\* every generation with k >= 2
\* byte c of every share is the polynomial of secret byte c and of the
\* coefficients drawn for position c, of no other position's.
C3_SubsetInsufficiency ==
    /\ op = "observe" => Cardinality(ret) = 1
    /\ (op = "generate" /\ IsOk(ret) /\ args.k >= 2)
       => \A j \in 1..args.n, c \in 1..Len(args.secret) :
             PayloadOf(ret.val[j])[c] = Horner(<<args.secret[c]>> \o aux[c], j)

\* C3's case: share 2 is observed to hold 128, the candidate secret byte is
\* 97, and one coefficient, not zero, explains it
C3_Witness ==
    /\ op = "observe"
    /\ args = [k |-> 2, xs |-> <<2>>, ys |-> <<128>>, s |-> 97]
    /\ \E a \in Byte \ {0} : ret = {<<a>>}

\* C4, as the specification states it: a generation with k > n, k = 0, n = 0
\* or an empty secret returns Err, never Ok and never a panic.
C4_RejectsInvalidParameters ==
    (/\ op = "generate"
     /\ \/ args.k > args.n
        \/ args.k = 0
        \/ args.n = 0
        \/ args.secret = <<>>)
    => IsErr(ret)

\* whether a field is a decimal number in 1..255: digits only, at least one
DecimalField(f) ==
    /\ f # <<>>
    /\ \A i \in 1..Len(f) : f[i] \in DigitSet
    /\ ParseDigits(f, 0) >= 1

\* whether a field is base64 of the standard alphabet, padded or not
Base64Field(f) ==
    \E pad \in 0..2 :
        /\ pad <= Len(f)
        /\ \A i \in 1..Len(f) : IF i > Len(f) - pad THEN f[i] = "=" ELSE f[i] \in B64CharSet
        /\ (Len(f) - pad) % 4 # 1
        /\ pad > 0 => Len(f) % 4 = 0

\* whether the fields are those of a share string K-I-B
WellFormedFields(parts) ==
    /\ Len(parts) = 3
    /\ DecimalField(parts[1])
    /\ DecimalField(parts[2])
    /\ Base64Field(parts[3])

\* whether a string, white space around it aside, is a share string K-I-B
WellFormedShare(s) == WellFormedFields(Split(Trim(s), "-"))

\* C5, as the specification states it: parsing a string that has not exactly
\* three fields, whose K or I is no decimal number in 0..255 or is 0, or whose
\* third field is not valid base64, returns Err, in both formats and whatever
\* is_signed is.
C5_GrammarRejection ==
    (op = "parse" /\ ~WellFormedShare(args.s)) => IsErr(ret)

\* the body bytes of a well-formed share string
BodyBytes(s) == from_base64(Split(Trim(s), "-")[3]).val

\* whether the Textual body parsed as j has a shamir_data that is no base64
BadInner(j) == IsOk(j) /\ IsErr(base64_decode(j.val.shamir_data))

\* whether the body is not a well-formed body of the format
BodyInvalid(body, share_format) ==
    IF share_format = "Protobuf" THEN IsErr(ShareDataParseFromBytes(body))
    ELSE \/ ~Utf8Valid(body)
         \/ IsErr(JsonFromStr(body))
         \/ BadInner(JsonFromStr(body))

\* whether the well-formed body carries no proof
ProofAbsent(body, share_format) ==
    IF share_format = "Protobuf" THEN ShareDataParseFromBytes(body).val.proof = <<>>
    ELSE ~IsSome(JsonFromStr(body).val.proof)

\* C6, as the specification states it: parsing a well-formed share string
\* whose body is not a well-formed body of the format, or whose body carries
\* no proof while is_signed is set, returns Err(ShareParsing): no panic, no Ok.
C6_BodyFailuresAreErrors ==
    (/\ op = "parse"
     /\ WellFormedShare(args.s)
     /\ \/ BodyInvalid(BodyBytes(args.s), args.share_format)
        \/ args.is_signed /\ ProofAbsent(BodyBytes(args.s), args.share_format))
    => (IsErr(ret) /\ ret.kind = "ShareParsingError")

\* the decimal digits of a number below 1000, most significant first
DecimalOf(x) ==
    IF x < 10 THEN <<x>>
    ELSE IF x < 100 THEN <<x \div 10, x % 10>>
    ELSE <<x \div 100, (x \div 10) % 10, x % 10>>

\* the characters of a number below 1000
DecimalText(x) == AsSeq([i \in 1..Len(DecimalOf(x)) |-> Digits[DecimalOf(x)[i] + 1]])

\* C7: a generation with 1 <= k <= n and a secret of at least one byte,
\* signed or not, returns Ok of exactly n strings, and the string at position
\* j (from 1) has three fields, the first the decimal text of k and the second
\* the decimal text of j: the share numbers are 1 .. n, also for n = 255.
C7_SharesInIndexOrder ==
    (op = "generate" /\ ValidGenerate(args) /\ args.secret # <<>>)
    => /\ IsOk(ret)
       /\ Len(ret.val) = args.n
       /\ \A j \in 1..args.n :
             /\ Len(Split(ret.val[j], "-")) = 3
             /\ Split(ret.val[j], "-")[1] = DecimalText(args.k)
             /\ Split(ret.val[j], "-")[2] = DecimalText(j)

\* C7's case: a signed generation of 255 shares, the last one numbered 255
C7_Witness ==
    /\ op = "generate"
    /\ args.n = U8Max /\ args.k = 1 /\ args.sign_shares
    /\ args.secret = <<97, 98>>
    /\ IsOk(ret)
    /\ Len(ret.val) = 255
    /\ Take(ret.val[255], 6) = <<"1", "-", "2", "5", "5", "-">>

\* C8: a generation whose randomness source fails returns Err, of the I/O
\* kind of the source's failure when k <= n (and the error of k > n, raised
\* before the source is asked for, otherwise): no list of shares at all.
C8_RngFailureIsAtomic ==
    (op = "generate" /\ ~args.rng_ok)
    => /\ IsErr(ret)
       /\ args.k <= args.n => ret = Err("Io")

\* C8's case: a signed 2-out-of-3 generation whose source fails
C8_Witness ==
    /\ op = "generate"
    /\ ~args.rng_ok
    /\ args.k = 2 /\ args.n = 3 /\ args.sign_shares
    /\ args.secret = <<97, 98>>
    /\ ret = Err("Io")

\* C9: parsing, unsigned, the string that share_string_from makes of a
\* payload, a threshold and a share number in 1..255 without a signature
\* returns Ok of that payload, threshold and share number and no signature,
\* in either format.
C9_CodecRoundTrip ==
    op = "codec"
    => ret = Ok(<<args.share, args.threshold, args.share_num, None>>)

\* C9's case: three bytes, threshold 255 and share number 100 in the
\* Textual format
C9_Witness ==
    /\ op = "codec"
    /\ args = [share |-> <<1, 2, 3>>, threshold |-> U8Max, share_num |-> 100,
               share_format |-> "Json"]
    /\ ret = Ok(<<<<1, 2, 3>>, U8Max, 100, None>>)

\* the ASCII codes of a number below 1000
DecimalAscii(x) == AsSeq([i \in 1..Len(DecimalOf(x)) |-> 48 + DecimalOf(x)[i]])

\* whether the bytes are "K-I-" and the unpadded base64 of the payload, for
\* the triple t = <<k, i, payload>>
IsSigningFormOf(form, t) ==
    /\ Len(Split(form, 45)) = 3
    /\ Split(form, 45)[1] = DecimalAscii(t[1])
    /\ Split(form, 45)[2] = DecimalAscii(t[2])
    /\ 61 \notin Range(Split(form, 45)[3])
    /\ Len(Split(form, 45)[3]) = (8 * Len(t[3]) + 5) \div 6
    /\ base64_decode(Split(form, 45)[3]) = Ok(t[3])

\* what parsing share j of a signed generation, signature included, gives
SignedShare(j) == share_from_string_format(ret.val[j], 0, TRUE, args.share_format)

\* C10: the signing form of (k, i, P) is "K-I-" followed by the unpadded
\* base64 of P; two triples with the same signing form are the same triple;
\* and in a signed generation with 1 <= k <= n the signature in the string of
\* share j is the
\* one made for the signing form of the k, the share number j and the
\* payload that the same string carries.
C10_SigningFormBinds ==
    /\ op = "signing_form"
       => /\ IsSigningFormOf(ret[1], args[1])
          /\ IsSigningFormOf(ret[2], args[2])
          /\ ret[1] = ret[2] => args[1] = args[2]
    /\ (op = "generate" /\ ValidGenerate(args) /\ args.sign_shares /\ IsOk(ret))
       => \A j \in 1..args.n :
             /\ IsOk(SignedShare(j))
             /\ SignedShare(j).val[2] = args.k
             /\ SignedShare(j).val[3] = j
             /\ Unwrap(SignedShare(j).val[4])[1]
                  = << <<j>> \o Digest(format_share_for_signing(
                                           args.k, j, SignedShare(j).val[1])) >>

\* C10's case: the forms of two triples that differ in the payload only,
\* themselves different
C10_Witness ==
    /\ op = "signing_form"
    /\ args = << <<1, 11, <<255, 0>>>>, <<1, 11, <<97>>>> >>
    /\ ret[1] # ret[2]

===========================================================================
